---- MODULE Spec2Model ----
(***************************************************************************)
(* Grid<T> (full_code/c12_code/10_FriendFunctionTemplates/Grid.h) with     *)
(* T = int, and the employee Database (code/ch-1/database-class), as state *)
(* machines.                                                               *)
(*                                                                         *)
(* A Grid object is its three data members: mWidth, mHeight and mCells.    *)
(* mCells is a std::vector, i.e. a handle on a heap buffer that the vector *)
(* owns; the model keeps the buffers in `heap` and the handle in the       *)
(* object, so that copying (a new buffer) and moving (the handle changes   *)
(* owner) are what the defaulted special members do.  Coordinates are      *)
(* 0-based as in the code; TLA+ sequences are 1-based, hence the +1.       *)
(***************************************************************************)
EXTENDS Integers, Sequences, FiniteSets, TLC

VARIABLES grids, heap, last, nOps, nWrites, expect, copyOf,
          mEmployees, mNextEmployeeNumber, dbLast

(***************************************************************************)
(* grids    the Grid object in each slot: its members mWidth, mHeight and  *)
(*          mCells (the buffer the vector owns, Null for an empty vector)  *)
(* heap     the buffers: the columns of cells each vector holds            *)
(* last     the latest call: its arguments, how it ended ("ok",            *)
(*          "out_of_range", or "crash" / "wild" where the code's behaviour *)
(*          is undefined), the cell read and the grid operator+ returned   *)
(* nOps, nWrites   calls made so far, against MaxOps and MaxWrites         *)
(* expect   per slot, the <<x, y, cell>> most recently assigned through at *)
(*          and not since replaced by a copy, move or construction         *)
(* copyOf   per slot, the slot it was last copied from, while both objects *)
(*          are still the ones of that copy                                *)
(* mEmployees, mNextEmployeeNumber   the members of Records::Database      *)
(* dbLast   the latest Database call and how it ended                      *)
(***************************************************************************)
gridVars == <<grids, heap, last, nOps, nWrites, expect, copyOf>>
dbVars == <<mEmployees, mNextEmployeeNumber, dbLast>>
vars == <<grids, heap, last, nOps, nWrites, expect, copyOf,
          mEmployees, mNextEmployeeNumber, dbLast>>

(***************************************************************************)
(* Bounds of the model.                                                    *)
(***************************************************************************)
\* Largest explicit width a grid is constructed with.
MaxWidth == 2
\* Largest explicit height a grid is constructed with.
MaxHeight == 1
\* Largest value of T written into a cell.
MaxVal == 2
\* Number of copy / move / construct operations in one run.
MaxOps == 2
\* Number of assignments through at() in one run.
MaxWrites == 2
\* Width of size_t in the model (the code's is 64).
SizeBits == 8

kDefaultWidth == 10
kDefaultHeight == 10

Slots == {"a", "b"}
NoSlot == "-"
Null == 0
BufIds == 1..Cardinality(Slots)

RECURSIVE Pow2(_)
Pow2(n) == IF n = 0 THEN 1 ELSE 2 * Pow2(n - 1)

\* Conversion of a signed argument to size_t.
ToSizeT(i) == i % Pow2(SizeBits)

\* std::min
Min(a, b) == IF a < b THEN a ELSE b

\* std::optional<T>
Nothing == [has |-> FALSE, val |-> 0]
Just(v) == [has |-> TRUE, val |-> v]
Values == 1..MaxVal
Cells == {Nothing} \cup {Just(v) : v \in Values}

\* Arguments the callers pass; -1 is the "negative-equivalent" coordinate.
WidthArgs == 0..MaxWidth
HeightArgs == 0..MaxHeight
XArgs == {ToSizeT(i) : i \in (-1)..MaxWidth}
YArgs == {ToSizeT(i) : i \in (-1)..MaxHeight}

(***************************************************************************)
(* Storage.                                                                *)
(***************************************************************************)
FreeBuf == [used |-> FALSE, cells |-> <<>>]

\* The buffer a vector releases when it is destroyed or overwritten.
Release(h, b) == IF b = Null THEN h ELSE [h EXCEPT ![b] = FreeBuf]

\* The buffer the allocator hands out next.
FreshBuf(h) == CHOOSE b \in BufIds : ~h[b].used /\ \A c \in BufIds : ~h[c].used => b <= c

\* The elements of the vector mCells of grid object g.
Table(h, g) == IF g.mCells = Null THEN <<>> ELSE h[g.mCells].cells

\* mCells[x][y] designates an element.
HasCell(tbl, x, y) == x < Len(tbl) /\ y < Len(tbl[x + 1])

\* Column with every cell holding a value-initialised T instead of no value.
Column_ValueInitialized(height) == [y \in 1..height |-> Just(0)]

\* column.resize(mHeight) on a new column
Column(height) == [y \in 1..height |-> Nothing]

\* mCells.resize(mWidth); for each column: column.resize(mHeight)
NewTable(width, height) == [x \in 1..width |-> Column(height)]

\* Grid<T>::Grid(width, height): the new object and the heap with its buffer.
GridCtor(h, width, height) ==
    IF width = 0
    THEN [grid |-> [mWidth |-> width, mHeight |-> height, mCells |-> Null], heap |-> h]
    ELSE LET b == FreshBuf(h)
         IN [grid |-> [mWidth |-> width, mHeight |-> height, mCells |-> b],
             heap |-> [h EXCEPT ![b] = [used |-> TRUE, cells |-> NewTable(width, height)]]]

getWidth(g) == g.mWidth
getHeight(g) == g.mHeight

\* TRUE when verifyCoordinate throws std::out_of_range.
verifyCoordinate(g, x, y) == x >= g.mWidth \/ y >= g.mHeight

(***************************************************************************)
(* at(x, y).  The const overload checks the coordinate and indexes the     *)
(* vectors unchecked (operator[]); the mutable overload calls the const    *)
(* one and casts.  Indexing past a vector's size is undefined behaviour:   *)
(* the build either stops ("crash") or yields a reference to memory that   *)
(* is no cell of the grid ("wild").                                        *)
(***************************************************************************)
AtOutcomes(h, g, x, y) ==
    IF verifyCoordinate(g, x, y) THEN {"out_of_range"}
    ELSE IF HasCell(Table(h, g), x, y) THEN {"ok"}
    ELSE {"crash", "wild"}

\* What reading through the reference returned by at yields.
AtValues(h, g, x, y, outcome) ==
    IF outcome = "ok" THEN {Table(h, g)[x + 1][y + 1]}
    ELSE IF outcome = "wild" THEN Cells
    ELSE {Nothing}

\* StoreCell that writes before the coordinate is checked, wrapping the index.
StoreCell_Unchecked(h, g, x, y, c, outcome) ==
    LET tbl == Table(h, g)
    IN IF outcome = "ok"
       THEN [h EXCEPT ![g.mCells].cells[x + 1][y + 1] = c]
       ELSE IF Len(tbl) > 0 /\ Len(tbl[1]) > 0
       THEN [h EXCEPT ![g.mCells].cells[(x % Len(tbl)) + 1][(y % Len(tbl[1])) + 1] = c]
       ELSE h

\* The heap after assigning c through the reference returned by at.
StoreCell(h, g, x, y, c, outcome) ==
    IF outcome = "ok"
    THEN [h EXCEPT ![g.mCells].cells[x + 1][y + 1] = c]
    ELSE h

(***************************************************************************)
(* Records::Employee and Records::Database.                                *)
(***************************************************************************)
kFirstEmployeeNumber == 1000
kDefaultStartingSalary == 30000
kDefaultRaise == 1000

\* Number of addEmployee calls in one run.
MaxEmployees == 3
\* Number of promotions of one employee in one run.
MaxPromotions == 1

FirstNames == {"Greg", "Marc"}
LastNames == {"Wallis"}
NumberArgs == {-1} \cup ((kFirstEmployeeNumber - 1)..(kFirstEmployeeNumber + MaxEmployees))

NoDbLast == [op |-> "init", n |-> 0, outcome |-> "ok", idx |-> 0]

NoGrid == [mWidth |-> 0, mHeight |-> 0, cells |-> <<>>]
NoLast == [op |-> "init", g |-> NoSlot, src |-> NoSlot, x |-> 0, y |-> 0,
           v |-> Nothing, outcome |-> "ok", cell |-> Nothing, result |-> NoGrid]

Running == last.outcome # "crash"

\* What is known of the cells of s after an operation that replaces them.
Forget(s) == [expect EXCEPT ![s] = {}]
Unlink(s) == [t \in Slots |-> IF t = s \/ copyOf[t] = s THEN NoSlot ELSE copyOf[t]]

\* Two grids built with explicit dimensions.  The operations are the same
\* for both slots, so the initial states list each unordered pair of
\* dimensions once.
Init ==
    /\ \E wa \in WidthArgs, ha \in HeightArgs, wb \in WidthArgs, hb \in HeightArgs :
         LET h0 == [b \in BufIds |-> FreeBuf]
             ca == GridCtor(h0, wa, ha)
             cb == GridCtor(ca.heap, wb, hb)
         IN /\ wa > wb \/ (wa = wb /\ ha >= hb)
            /\ grids = [s \in Slots |-> IF s = "a" THEN ca.grid ELSE cb.grid]
            /\ heap = cb.heap
    /\ last = NoLast
    /\ nOps = 0
    /\ nWrites = 0
    /\ expect = [s \in Slots |-> {}]
    /\ copyOf = [s \in Slots |-> NoSlot]
    /\ mEmployees = <<>>
    /\ mNextEmployeeNumber = kFirstEmployeeNumber
    /\ dbLast = NoDbLast

\* Grid<T> s(width, height);  a new object in slot s.  Grid<T> s; passes
\* kDefaultWidth and kDefaultHeight.
Construct(s, width, height) ==
    /\ Running /\ nOps < MaxOps
    /\ LET c == GridCtor(Release(heap, grids[s].mCells), width, height)
       IN /\ grids' = [grids EXCEPT ![s] = c.grid]
          /\ heap' = c.heap
    /\ last' = [NoLast EXCEPT !.op = "construct", !.g = s]
    /\ nOps' = nOps + 1
    /\ expect' = Forget(s)
    /\ copyOf' = Unlink(s)
    /\ UNCHANGED <<nWrites, dbVars>>

\* const std::optional<T>& c = std::as_const(s).at(x, y), then a read of c.
AtConst(s, x, y) ==
    /\ Running
    /\ \E o \in AtOutcomes(heap, grids[s], x, y) :
         \E c \in AtValues(heap, grids[s], x, y, o) :
            last' = [NoLast EXCEPT !.op = "atConst", !.g = s, !.x = x, !.y = y,
                                   !.outcome = o, !.cell = c]
    /\ UNCHANGED <<grids, heap, nOps, nWrites, expect, copyOf, dbVars>>

\* std::optional<T>& c = s.at(x, y), then a read of c: the mutable overload
\* returns what the const overload returns.
AtRead(s, x, y) ==
    /\ Running
    /\ \E o \in AtOutcomes(heap, grids[s], x, y) :
         \E c \in AtValues(heap, grids[s], x, y, o) :
            last' = [NoLast EXCEPT !.op = "atRead", !.g = s, !.x = x, !.y = y,
                                   !.outcome = o, !.cell = c]
    /\ UNCHANGED <<grids, heap, nOps, nWrites, expect, copyOf, dbVars>>

\* s.at(x, y) = v
AtAssign(s, x, y, v) ==
    /\ Running /\ nWrites < MaxWrites
    /\ \E o \in AtOutcomes(heap, grids[s], x, y) :
         /\ heap' = StoreCell(heap, grids[s], x, y, Just(v), o)
         /\ last' = [NoLast EXCEPT !.op = "atAssign", !.g = s, !.x = x, !.y = y,
                                   !.v = Just(v), !.outcome = o]
         /\ expect' = IF o \in {"ok", "wild"}
                      THEN [expect EXCEPT ![s] =
                              {e \in @ : e[1] # x \/ e[2] # y} \cup {<<x, y, Just(v)>>}]
                      ELSE expect
    /\ nWrites' = nWrites + 1
    /\ UNCHANGED <<grids, nOps, copyOf, dbVars>>

(***************************************************************************)
(* The defaulted copy and move members act memberwise: mCells by the       *)
(* vector's copy / move, mWidth and mHeight (size_t) by value.  Source and  *)
(* target are two objects.                                                 *)
(***************************************************************************)
\* CopyCells that shares the source's buffer instead of duplicating it.
CopyCells_Shallow(h, src) == [buf |-> src, heap |-> h]

\* std::vector copy: the buffer the copy owns, and the heap holding it.
CopyCells(h, src) ==
    IF src = Null THEN [buf |-> Null, heap |-> h]
    ELSE LET b == FreshBuf(h)
         IN [buf |-> b, heap |-> [h EXCEPT ![b] = [used |-> TRUE, cells |-> h[src].cells]]]

\* MovedFrom that also resets the dimensions.
MovedFrom_Zeroed(g) == [mWidth |-> 0, mHeight |-> 0, mCells |-> Null]

\* The source object after its members were moved from: the vector is left
\* empty (its buffer now belongs to the target), the two size_t members are
\* copied and keep their values.
MovedFrom(g) == [g EXCEPT !.mCells = Null]

\* Grid<T> dst(src);
CopyConstruct(dst, src) ==
    /\ Running /\ nOps < MaxOps /\ dst # src
    /\ LET c == CopyCells(Release(heap, grids[dst].mCells), grids[src].mCells)
       IN /\ grids' = [grids EXCEPT ![dst] = [mWidth |-> grids[src].mWidth,
                                              mHeight |-> grids[src].mHeight,
                                              mCells |-> c.buf]]
          /\ heap' = c.heap
    /\ last' = [NoLast EXCEPT !.op = "copyConstruct", !.g = dst, !.src = src]
    /\ nOps' = nOps + 1
    /\ expect' = Forget(dst)
    /\ copyOf' = [Unlink(dst) EXCEPT ![dst] = src]
    /\ UNCHANGED <<nWrites, dbVars>>

\* dst = src;
CopyAssign(dst, src) ==
    /\ Running /\ nOps < MaxOps /\ dst # src
    /\ LET c == CopyCells(Release(heap, grids[dst].mCells), grids[src].mCells)
       IN /\ grids' = [grids EXCEPT ![dst] = [mWidth |-> grids[src].mWidth,
                                              mHeight |-> grids[src].mHeight,
                                              mCells |-> c.buf]]
          /\ heap' = c.heap
    /\ last' = [NoLast EXCEPT !.op = "copyAssign", !.g = dst, !.src = src]
    /\ nOps' = nOps + 1
    /\ expect' = Forget(dst)
    /\ copyOf' = [Unlink(dst) EXCEPT ![dst] = src]
    /\ UNCHANGED <<nWrites, dbVars>>

\* Grid<T> dst(std::move(src));
MoveConstruct(dst, src) ==
    /\ Running /\ nOps < MaxOps /\ dst # src
    /\ grids' = [grids EXCEPT ![dst] = grids[src], ![src] = MovedFrom(grids[src])]
    /\ heap' = Release(heap, grids[dst].mCells)
    /\ last' = [NoLast EXCEPT !.op = "moveConstruct", !.g = dst, !.src = src]
    /\ nOps' = nOps + 1
    /\ expect' = [expect EXCEPT ![dst] = {}, ![src] = {}]
    /\ copyOf' = [s \in Slots |-> NoSlot]
    /\ UNCHANGED <<nWrites, dbVars>>

\* dst = std::move(src);
MoveAssign(dst, src) ==
    /\ Running /\ nOps < MaxOps /\ dst # src
    /\ grids' = [grids EXCEPT ![dst] = grids[src], ![src] = MovedFrom(grids[src])]
    /\ heap' = Release(heap, grids[dst].mCells)
    /\ last' = [NoLast EXCEPT !.op = "moveAssign", !.g = dst, !.src = src]
    /\ nOps' = nOps + 1
    /\ expect' = [expect EXCEPT ![dst] = {}, ![src] = {}]
    /\ copyOf' = [s \in Slots |-> NoSlot]
    /\ UNCHANGED <<nWrites, dbVars>>

(***************************************************************************)
(* operator+                                                               *)
(***************************************************************************)
\* mCells[x][y] of an operand, read without a bounds check: past the
\* vector's size the read is undefined and yields `wild`.
RawCell(tbl, x, y, wild) == IF HasCell(tbl, x, y) THEN tbl[x + 1][y + 1] ELSE wild

\* PlusCell that adds when either element has a value.
PlusCell_Either(leftElement, rightElement) ==
    IF leftElement.has \/ rightElement.has
    THEN Just(leftElement.val + rightElement.val)
    ELSE Nothing

\* One cell of the result: assigned only when both elements have a value.
PlusCell(leftElement, rightElement) ==
    IF leftElement.has /\ rightElement.has
    THEN Just(leftElement.val + rightElement.val)
    ELSE Nothing

\* TRUE when the loop of operator+ indexes operand table tbl past its size.
PlusUndefined(tbl, minWidth, minHeight) ==
    \E x \in 0..(minWidth - 1), y \in 0..(minHeight - 1) : ~HasCell(tbl, x, y)

\* The grid operator+ returns.
PlusResult(lhs, rhs, ltbl, rtbl, wl, wr) ==
    LET minWidth == Min(getWidth(lhs), getWidth(rhs))
        minHeight == Min(getHeight(lhs), getHeight(rhs))
    IN [mWidth |-> minWidth, mHeight |-> minHeight,
        cells |-> [x \in 1..minWidth |-> [y \in 1..minHeight |->
                     PlusCell(RawCell(ltbl, x - 1, y - 1, wl),
                              RawCell(rtbl, x - 1, y - 1, wr))]]]

\* Grid<T> sum = l + r;
Plus(l, r) ==
    /\ Running
    /\ LET lhs == grids[l]
           rhs == grids[r]
           ltbl == Table(heap, lhs)
           rtbl == Table(heap, rhs)
           minWidth == Min(getWidth(lhs), getWidth(rhs))
           minHeight == Min(getHeight(lhs), getHeight(rhs))
           lundef == PlusUndefined(ltbl, minWidth, minHeight)
           rundef == PlusUndefined(rtbl, minWidth, minHeight)
       IN \/ /\ ~lundef /\ ~rundef
             /\ last' = [NoLast EXCEPT !.op = "plus", !.g = l, !.src = r,
                           !.result = PlusResult(lhs, rhs, ltbl, rtbl, Nothing, Nothing)]
          \/ /\ lundef \/ rundef
             /\ \E wl \in IF lundef THEN Cells ELSE {Nothing},
                   wr \in IF rundef THEN Cells ELSE {Nothing} :
                  last' = [NoLast EXCEPT !.op = "plus", !.g = l, !.src = r, !.outcome = "wild",
                             !.result = PlusResult(lhs, rhs, ltbl, rtbl, wl, wr)]
          \/ /\ lundef \/ rundef
             /\ last' = [NoLast EXCEPT !.op = "plus", !.g = l, !.src = r, !.outcome = "crash"]
    /\ UNCHANGED <<grids, heap, nOps, nWrites, expect, copyOf, dbVars>>

NextGrid ==
    \/ \E s \in Slots, x \in XArgs, y \in YArgs : AtConst(s, x, y)
    \/ \E s \in Slots, x \in XArgs, y \in YArgs : AtRead(s, x, y)
    \/ \E s \in Slots, x \in XArgs, y \in YArgs, v \in Values : AtAssign(s, x, y, v)
    \/ \E dst \in Slots, src \in Slots : CopyConstruct(dst, src)
    \/ \E dst \in Slots, src \in Slots : CopyAssign(dst, src)
    \/ \E dst \in Slots, src \in Slots : MoveConstruct(dst, src)
    \/ \E dst \in Slots, src \in Slots : MoveAssign(dst, src)
    \/ \E l \in Slots, r \in Slots : Plus(l, r)

\* Grids in use: access, copy, move and combination.
Spec == Init /\ [][NextGrid]_vars

\* Coordinates at and past the default dimensions.
DefaultXArgs == XArgs \cup {kDefaultWidth - 1, kDefaultWidth}
DefaultYArgs == YArgs \cup {kDefaultHeight - 1, kDefaultHeight}

NextCtor ==
    \/ \E s \in Slots, w \in WidthArgs, h \in HeightArgs : Construct(s, w, h)
    \/ \E s \in Slots : Construct(s, kDefaultWidth, kDefaultHeight)
    \/ \E s \in Slots, x \in DefaultXArgs, y \in DefaultYArgs : AtConst(s, x, y)
    \/ \E s \in Slots, x \in DefaultXArgs, y \in DefaultYArgs : AtRead(s, x, y)

\* Grids right after construction: nothing is ever assigned.
SpecCtor == Init /\ [][NextCtor]_vars

(***************************************************************************)
(* Records::Database.  An operation on a stored record goes through the    *)
(* reference getEmployee returns, used before the next addEmployee.        *)
(***************************************************************************)
\* Employee::Employee(firstName, lastName) with the default member values.
Employee(firstName, lastName) ==
    [mFirstName |-> firstName, mLastName |-> lastName, mEmployeeNumber |-> -1,
     mSalary |-> kDefaultStartingSalary, mHired |-> FALSE]

\* Employee::hire, Employee::fire, Employee::promote
hire(e) == [e EXCEPT !.mHired = TRUE]
fire(e) == [e EXCEPT !.mHired = FALSE]
promote(e, raiseAmount) == [e EXCEPT !.mSalary = @ + raiseAmount]

\* addEmployee with ++mNextEmployeeNumber in place of mNextEmployeeNumber++.
addEmployee_PreIncrement(emps, next, firstName, lastName) ==
    LET theEmployee == hire([Employee(firstName, lastName) EXCEPT !.mEmployeeNumber = next + 1])
    IN [emps |-> Append(emps, theEmployee), next |-> next + 1]

\* Database::addEmployee: the vector and the counter after the call.
addEmployee(emps, next, firstName, lastName) ==
    LET theEmployee == hire([Employee(firstName, lastName) EXCEPT !.mEmployeeNumber = next])
    IN [emps |-> Append(emps, theEmployee), next |-> next + 1]

\* Database::getEmployee(int): the position of the first record with the
\* number, from position i on; 0 when the loop ends (std::logic_error).
RECURSIVE getEmployee(_, _, _)
getEmployee(emps, employeeNumber, i) ==
    IF i > Len(emps) THEN 0
    ELSE IF emps[i].mEmployeeNumber = employeeNumber THEN i
    ELSE getEmployee(emps, employeeNumber, i + 1)

Outcome(idx) == IF idx = 0 THEN "logic_error" ELSE "ok"

\* db.addEmployee(firstName, lastName)
AddEmployee(firstName, lastName) ==
    /\ Len(mEmployees) < MaxEmployees
    /\ LET r == addEmployee(mEmployees, mNextEmployeeNumber, firstName, lastName)
       IN /\ mEmployees' = r.emps
          /\ mNextEmployeeNumber' = r.next
          /\ dbLast' = [op |-> "add", n |-> mNextEmployeeNumber, outcome |-> "ok",
                        idx |-> Len(r.emps)]
    /\ UNCHANGED gridVars

\* db.getEmployee(n)
GetEmployee(n) ==
    /\ LET idx == getEmployee(mEmployees, n, 1)
       IN dbLast' = [op |-> "get", n |-> n, outcome |-> Outcome(idx), idx |-> idx]
    /\ UNCHANGED <<mEmployees, mNextEmployeeNumber, gridVars>>

\* doFire: db.getEmployee(n).fire(), the logic_error caught.
Fire(n) ==
    /\ LET idx == getEmployee(mEmployees, n, 1)
       IN /\ mEmployees' = IF idx = 0 THEN mEmployees
                           ELSE [mEmployees EXCEPT ![idx] = fire(@)]
          /\ dbLast' = [op |-> "fire", n |-> n, outcome |-> Outcome(idx), idx |-> idx]
    /\ UNCHANGED <<mNextEmployeeNumber, gridVars>>

\* db.getEmployee(n).hire(): a rehire.
Hire(n) ==
    /\ LET idx == getEmployee(mEmployees, n, 1)
       IN /\ mEmployees' = IF idx = 0 THEN mEmployees
                           ELSE [mEmployees EXCEPT ![idx] = hire(@)]
          /\ dbLast' = [op |-> "hire", n |-> n, outcome |-> Outcome(idx), idx |-> idx]
    /\ UNCHANGED <<mNextEmployeeNumber, gridVars>>

\* doPromote: db.getEmployee(n).promote(raiseAmount), the logic_error caught.
Promote(n, raiseAmount) ==
    /\ LET idx == getEmployee(mEmployees, n, 1)
       IN /\ idx # 0 =>
                mEmployees[idx].mSalary + raiseAmount
                    <= kDefaultStartingSalary + MaxPromotions * kDefaultRaise
          /\ mEmployees' = IF idx = 0 THEN mEmployees
                           ELSE [mEmployees EXCEPT ![idx] = promote(@, raiseAmount)]
          /\ dbLast' = [op |-> "promote", n |-> n, outcome |-> Outcome(idx), idx |-> idx]
    /\ UNCHANGED <<mNextEmployeeNumber, gridVars>>

NextDb ==
    \/ \E f \in FirstNames, l \in LastNames : AddEmployee(f, l)
    \/ \E n \in NumberArgs : GetEmployee(n)
    \/ \E n \in NumberArgs : Fire(n)
    \/ \E n \in NumberArgs : Hire(n)
    \/ \E n \in NumberArgs : Promote(n, kDefaultRaise)

\* The database in use; the grids play no part and are the empty ones.
InitDb == Init /\ \A s \in Slots : getWidth(grids[s]) = 0 /\ getHeight(grids[s]) = 0

SpecDb == InitDb /\ [][NextDb]_vars

(***************************************************************************)
(* Properties.                                                             *)
(***************************************************************************)
AtOps == {"atConst", "atRead", "atAssign"}
ReadOps == {"atConst", "atRead"}
CopyOps == {"copyConstruct", "copyAssign"}
MoveOps == {"moveConstruct", "moveAssign"}

InBounds(g, x, y) == x < getWidth(g) /\ y < getHeight(g)

\* What a client can observe of the grid in slot s.
View(s) == [width |-> getWidth(grids[s]), height |-> getHeight(grids[s]),
            cells |-> Table(heap, grids[s])]

\* The table of g has getWidth columns of getHeight cells each.
Rectangular(h, g) ==
    /\ Len(Table(h, g)) = getWidth(g)
    /\ \A x \in 1..Len(Table(h, g)) : Len(Table(h, g)[x]) = getHeight(g)

\* C1: a call of at(x, y), through either overload, succeeds exactly when
\* x < width and y < height, and otherwise fails with out_of_range.
C1_AtSucceedsIffInBounds ==
    last.op \in AtOps =>
        LET g == grids[last.g]
        IN /\ (last.outcome = "ok") <=> InBounds(g, last.x, last.y)
           /\ ~InBounds(g, last.x, last.y) => last.outcome = "out_of_range"

\* C1 on grids whose table is intact (no grid was moved from).
C1_OnRectangularGrids ==
    (last.op \in AtOps /\ Rectangular(heap, grids[last.g])) =>
        LET g == grids[last.g]
        IN /\ (last.outcome = "ok") <=> InBounds(g, last.x, last.y)
           /\ ~InBounds(g, last.x, last.y) => last.outcome = "out_of_range"

\* C2: within the overlap of the operands, a cell of lhs + rhs holds the sum
\* when both operand cells hold a value, and nothing when either operand
\* cell holds nothing.
C2_PlusCells ==
    (last.op = "plus" /\ last.outcome # "crash") =>
        LET lhs == grids[last.g]
            rhs == grids[last.src]
            ltbl == Table(heap, lhs)
            rtbl == Table(heap, rhs)
        IN \A x \in 0..(Min(getWidth(lhs), getWidth(rhs)) - 1),
              y \in 0..(Min(getHeight(lhs), getHeight(rhs)) - 1) :
              /\ HasCell(last.result.cells, x, y)
              /\ (/\ HasCell(ltbl, x, y) /\ ltbl[x + 1][y + 1].has
                  /\ HasCell(rtbl, x, y) /\ rtbl[x + 1][y + 1].has)
                    => last.result.cells[x + 1][y + 1]
                         = Just(ltbl[x + 1][y + 1].val + rtbl[x + 1][y + 1].val)
              /\ (\/ HasCell(ltbl, x, y) /\ ~ltbl[x + 1][y + 1].has
                  \/ HasCell(rtbl, x, y) /\ ~rtbl[x + 1][y + 1].has)
                    => last.result.cells[x + 1][y + 1] = Nothing

\* A sum with one cell holding a value and one cell holding nothing although
\* one operand has a value there.
C2_Witness ==
    /\ last.op = "plus" /\ last.outcome = "ok"
    /\ \E x \in 0..(last.result.mWidth - 1), y \in 0..(last.result.mHeight - 1) :
          last.result.cells[x + 1][y + 1].has
    /\ \E x \in 0..(last.result.mWidth - 1), y \in 0..(last.result.mHeight - 1) :
          /\ ~last.result.cells[x + 1][y + 1].has
          /\ Table(heap, grids[last.src])[x + 1][y + 1].has

\* C3: lhs + rhs completes for any two grids and returns a grid of width
\* min(lhs.width, rhs.width) and height min(lhs.height, rhs.height).
C3_PlusCompletes ==
    last.op = "plus" =>
        /\ last.outcome = "ok"
        /\ last.result.mWidth = Min(getWidth(grids[last.g]), getWidth(grids[last.src]))
        /\ last.result.mHeight = Min(getHeight(grids[last.g]), getHeight(grids[last.src]))

\* C3 for operands whose tables are intact.
C3_OnRectangularGrids ==
    (/\ last.op = "plus"
     /\ Rectangular(heap, grids[last.g]) /\ Rectangular(heap, grids[last.src])) =>
        /\ last.outcome = "ok"
        /\ last.result.mWidth = Min(getWidth(grids[last.g]), getWidth(grids[last.src]))
        /\ last.result.mHeight = Min(getHeight(grids[last.g]), getHeight(grids[last.src]))
        /\ Len(last.result.cells) = last.result.mWidth
        /\ \A x \in 1..Len(last.result.cells) :
              Len(last.result.cells[x]) = last.result.mHeight

\* C4: in every reachable state every grid's table has getWidth() columns of
\* getHeight() cells.
C4_TableMatchesDimensions == \A s \in Slots : Rectangular(heap, grids[s])

\* C5, the copy: right after copying src to dst the two grids have the same
\* dimensions and the same cells.
C5_CopyEqual == last.op \in CopyOps => View(last.g) = View(last.src)

\* C5, the writes: an assignment through at on one of a copy and its
\* original leaves the other one as it was.
C5_WriteFrame ==
    last'.op = "atAssign" =>
        \A s \in Slots :
            (s # last'.g /\ (copyOf[s] = last'.g \/ copyOf[last'.g] = s)) => View(s)' = View(s)

\* C5: a copy equals its source and later writes to one do not change the other.
C5_CopyIndependence == [](C5_CopyEqual) /\ [][C5_WriteFrame]_vars

\* A completed write to a copy or its original after which the two differ.
C5_Witness ==
    /\ last.op = "atAssign" /\ last.outcome = "ok"
    /\ \E s \in Slots :
          /\ s # last.g
          /\ copyOf[s] = last.g \/ copyOf[last.g] = s
          /\ View(s).cells # View(last.g).cells
          /\ View(s).width = View(last.g).width

\* C6: once a value was assigned through at(x, y) at a valid coordinate, a
\* later at(x, y), through either overload and whatever was assigned to
\* other coordinates in between, yields a cell holding that value.
C6_WriteThenRead ==
    last.op \in ReadOps =>
        \A e \in expect[last.g] :
            (e[1] = last.x /\ e[2] = last.y) => last.outcome = "ok" /\ last.cell = e[3]

\* C6 for grids whose table is intact.
C6_OnRectangularGrids ==
    (last.op \in ReadOps /\ Rectangular(heap, grids[last.g])) =>
        \A e \in expect[last.g] :
            (e[1] = last.x /\ e[2] = last.y) => last.outcome = "ok" /\ last.cell = e[3]

\* C7: right after construction, with explicit or default dimensions, every
\* valid coordinate holds a cell with no value.
C7_ConstructedCellsAbsent ==
    /\ \A s \in Slots :
          \A x \in 0..(getWidth(grids[s]) - 1), y \in 0..(getHeight(grids[s]) - 1) :
              /\ HasCell(Table(heap, grids[s]), x, y)
              /\ Table(heap, grids[s])[x + 1][y + 1] = Nothing
    /\ (last.op \in ReadOps /\ InBounds(grids[last.g], last.x, last.y)) =>
          last.outcome = "ok" /\ last.cell = Nothing

\* A read of the last cell of a grid built with the default dimensions.
C7_Witness ==
    /\ last.op = "atRead" /\ last.outcome = "ok"
    /\ getWidth(grids[last.g]) = kDefaultWidth /\ getHeight(grids[last.g]) = kDefaultHeight
    /\ last.x = kDefaultWidth - 1 /\ last.y = kDefaultHeight - 1

\* C8 as stated: no operation on an existing instance, assignments from
\* another grid included, changes what getWidth() and getHeight() return.
C8_DimensionsImmutable ==
    [][\A s \in Slots :
          ~(last'.g = s /\ last'.op \in {"construct", "copyConstruct", "moveConstruct"}) =>
              /\ getWidth(grids'[s]) = getWidth(grids[s])
              /\ getHeight(grids'[s]) = getHeight(grids[s])]_vars

\* C8 amended: copy and move assignment give the target the source's
\* dimensions; every other operation on an existing instance (at, operand
\* of +, being copied from, being moved from) leaves its dimensions alone.
C8_DimensionsChangeOnlyByAssignment ==
    [][\A s \in Slots :
          IF last'.g = s /\ last'.op \in {"construct", "copyConstruct", "moveConstruct"}
          THEN TRUE
          ELSE IF last'.g = s /\ last'.op \in {"copyAssign", "moveAssign"}
          THEN /\ getWidth(grids'[s]) = getWidth(grids[last'.src])
               /\ getHeight(grids'[s]) = getHeight(grids[last'.src])
          ELSE /\ getWidth(grids'[s]) = getWidth(grids[s])
               /\ getHeight(grids'[s]) = getHeight(grids[s])]_vars

\* A grid that was just moved from and still reports its dimensions.
C8_Witness ==
    /\ last.op = "moveAssign"
    /\ getWidth(grids[last.src]) = MaxWidth /\ getHeight(grids[last.src]) = MaxHeight
    /\ getWidth(grids[last.g]) = MaxWidth

\* C9: an at call that fails with out_of_range changes no grid, and
\* operator+ changes neither operand.
C9_NoSideEffects ==
    [][/\ (last'.op \in AtOps /\ last'.outcome = "out_of_range") =>
             \A s \in Slots : View(s)' = View(s)
       /\ last'.op = "plus" => \A s \in Slots : View(s)' = View(s)]_vars

\* A failed assignment to a grid that holds a value.
C9_Witness ==
    /\ last.op = "atAssign" /\ last.outcome = "out_of_range"
    /\ \E x \in 0..(getWidth(grids[last.g]) - 1), y \in 0..(getHeight(grids[last.g]) - 1) :
          HasCell(Table(heap, grids[last.g]), x, y) /\ Table(heap, grids[last.g])[x + 1][y + 1].has

\* C10, the stored records: the k-th record has number 1000 + (k - 1), the
\* numbers are pairwise distinct, a record is hired when it is added, and
\* getEmployee(n) finds the one record numbered n exactly when
\* 1000 <= n < mNextEmployeeNumber.
C10_Records ==
    /\ \A k \in 1..Len(mEmployees) : mEmployees[k].mEmployeeNumber = kFirstEmployeeNumber + (k - 1)
    /\ \A j, k \in 1..Len(mEmployees) :
          mEmployees[j].mEmployeeNumber = mEmployees[k].mEmployeeNumber => j = k
    /\ dbLast.op = "add" => mEmployees[Len(mEmployees)].mHired
    /\ dbLast.op = "get" =>
          IF kFirstEmployeeNumber <= dbLast.n /\ dbLast.n < mNextEmployeeNumber
          THEN /\ dbLast.outcome = "ok"
               /\ dbLast.idx \in 1..Len(mEmployees)
               /\ \A k \in 1..Len(mEmployees) :
                     (mEmployees[k].mEmployeeNumber = dbLast.n) <=> (k = dbLast.idx)
          ELSE dbLast.outcome = "logic_error"

\* C10, the failed lookup: it leaves the database as it was.
C10_FailedLookupFrame ==
    dbLast'.outcome = "logic_error" => UNCHANGED <<mEmployees, mNextEmployeeNumber>>

\* C10: the numbering, and what getEmployee returns or throws.
C10_EmployeeNumbers == [](C10_Records) /\ [][C10_FailedLookupFrame]_vars

\* A lookup of the second of three records after the first one was fired.
C10_Witness ==
    /\ dbLast.op = "get" /\ dbLast.outcome = "ok" /\ dbLast.idx = 2
    /\ Len(mEmployees) = MaxEmployees
    /\ ~mEmployees[1].mHired

====
